---- MODULE Spec2Model ----
(***************************************************************************)
(* A model of geecache (augooh/gol): the LRU eviction store                *)
(* (geecache/lru/lru.go) and the cache group that orchestrates store,      *)
(* request deduplicator, peer picker, peer transport and loader            *)
(* (geecache/geecache.go).                                                 *)
(***************************************************************************)
EXTENDS Integers, Sequences, FiniteSets, TLC

VARIABLES
    c,          \* the stand-alone lru.Cache driven by SpecLRU
    recency,    \* history: resident keys of c by last access, oldest first
    last,       \* history: the last operation on c, its inputs and what it found
    mainCache,  \* Group.mainCache: the group's store
    peers,      \* Group.peers: "nil" until RegisterPeers binds a picker
    fault,      \* the panic that ended the process, "" while it runs
    m,          \* Group.loader: the deduplicator's table of calls in flight
    req,        \* per caller: where its Group.Get stands, its key and results
    recent,     \* history: the load or fetch that resolved a Get last and how far
                \* the same key's next Get has come, while nothing else happened
    reg,        \* per goroutine calling Group.RegisterPeers: where its call stands
    groups,     \* the registry: the group bound to each name
    regHist,    \* history: the groups NewGroup has made, the one it returned first
                \* for each name, and the last call on the registry with its result
    http,       \* the handler of HTTPPool.ServeHTTP: its request and its response
    pool,       \* the HTTPPool as a picker: self, basePath, peers, httpGetters
    poolHist,   \* history: the peers of the last Set and of the one before, and
                \* the last call on the picker with its result
    nodes,      \* the cluster, per node: its pool, its group's store and table
    calls       \* the cluster, per goroutine of a node: where its Get stands

lruVars == <<c, recency, last>>

groupVars == <<mainCache, peers, fault, m, req, recent>>

regVars == <<reg>>

registryVars == <<groups, regHist>>

poolVars == <<pool, poolHist>>

clusterVars == <<nodes, calls>>

\* what the operations of the group leave alone
nonGroupVars == <<lruVars, regVars, registryVars, http, poolVars, clusterVars>>

\* what a registration, which works on the group, leaves alone
nonRegisterVars == <<lruVars, registryVars, http, poolVars, clusterVars>>

\* what the operations of the stand-alone store leave alone
nonLruVars == <<groupVars, regVars, registryVars, http, poolVars, clusterVars>>

\* what the registry's operations leave alone, the panic aside
nonRegistryVars ==
    <<lruVars, mainCache, peers, m, req, recent, regVars, http, poolVars, clusterVars>>

\* what the handler, which works on the group, leaves alone
nonServeVars == <<lruVars, regVars, registryVars, poolVars, clusterVars>>

\* what the picker's operations leave alone
nonPoolVars == <<lruVars, groupVars, regVars, registryVars, http, clusterVars>>

\* what the cluster's operations leave alone
nonClusterVars == <<lruVars, groupVars, regVars, registryVars, http, poolVars>>

vars == <<c, recency, last, mainCache, peers, fault, m, req, recent, reg,
          groups, regHist, http, pool, poolHist, nodes, calls>>

-----------------------------------------------------------------------------
(* The parts a specification does not drive stay as they are created.      *)

\* the goroutines that call RegisterPeers, each with a picker of its own
Registrars == {1, 2}

RegistrarsAtRest == reg = [r \in Registrars |-> "idle"]

\* the name the group is created with
GroupName == "g"

\* the registry once NewGroup(GroupName, ...) has returned the group
RegistryAtRest ==
    /\ groups = (GroupName :> 1)
    /\ regHist = [made |-> 1, first |-> (GroupName :> 1),
                  last |-> [op |-> "NewGroup", name |-> GroupName, result |-> 1]]

\* the handler before its first request
NoRequest == [pc |-> "idle", path |-> <<>>, status |-> 0, body |-> "",
              called |-> FALSE, key |-> ""]

ServerAtRest == http = NoRequest

\* basePath of every pool, http.go line 15
defaultBasePath == "/_geecache/"

\* the addresses of the nodes
Addresses == {"http://a", "http://b", "http://c"}

\* the keys the picker is asked about
PoolKeys == {"a b", "a+b"}

\* a nil *httpGetter
NilGetter == [isNil |-> TRUE, baseURL |-> ""]

\* NewHTTPPool: no ring and no clients yet
NewHTTPPool(self) ==
    [self |-> self, basePath |-> defaultBasePath, isSet |-> FALSE,
     peers |-> [key \in PoolKeys |-> ""], httpGetters |-> <<>>]

NoPick == [op |-> "NewHTTPPool", set |-> <<>>, before |-> <<>>, key |-> "",
           getter |-> NilGetter, ok |-> FALSE]

PoolAtRest ==
    /\ pool = NewHTTPPool("http://a")
    /\ poolHist = NoPick

\* no cluster: the process is on its own
ClusterAtRest == nodes = <<>> /\ calls = <<>>

OthersAtRest ==
    RegistrarsAtRest /\ RegistryAtRest /\ ServerAtRest /\ PoolAtRest /\ ClusterAtRest

-----------------------------------------------------------------------------
(* Inputs of the eviction store.                                           *)

\* keys handed to Add/Get; len(key) is the string's length
Keys == {"a", "b", "c", "dd"}

\* values handed to Add; Value.Len() is the string's length
Values == {"", "x", "yy"}

\* maxBytes handed to New: 0 is unbounded, a negative limit is accepted by New
MaxBytesChoices == {-1, 0, 3, 6}

-----------------------------------------------------------------------------
(* lru.go: the pure part of every operation, on a store record             *)
(*   maxBytes, nbytes : as in the struct                                    *)
(*   ll        : the list, front first, each element its entry              *)
(*   cache     : the keys the map holds (the element of key k is the list   *)
(*               element created for k, the only value line 71 ever stores) *)
(*   OnEvicted : whether a callback is configured                           *)
(*   evicted   : the callback's invocations during the last operation       *)
(*   seen      : list, map and size as each of these invocations found them *)
(*   hung      : the eviction loop of Add spins without ever returning      *)

New(maxBytes, onEvicted) ==
    [maxBytes |-> maxBytes, nbytes |-> 0, ll |-> <<>>, cache |-> {},
     OnEvicted |-> onEvicted, evicted |-> <<>>, seen |-> <<>>, hung |-> FALSE]

\* int64(len(kv.key)) + int64(kv.value.Len())
EntryBytes(e) == Len(e.key) + Len(e.value)

\* the index of key's element in the list, 0 when the list does not hold it
IndexOf(ll, key) ==
    IF \E i \in 1..Len(ll) : ll[i].key = key
    THEN CHOOSE i \in 1..Len(ll) : ll[i].key = key
    ELSE 0

\* list.Remove of the element at index i
RemoveAt(ll, i) == SubSeq(ll, 1, i - 1) \o SubSeq(ll, i + 1, Len(ll))

\* list.MoveToFront of key's element; an element that is not in the list stays out
MoveToFront(ll, key) ==
    LET i == IndexOf(ll, key)
    IN  IF i = 0 THEN ll ELSE <<ll[i]>> \o RemoveAt(ll, i)

\* list.PushFront
PushFront(ll, e) == <<e>> \o ll

\* the value held by key's element
ValueOf(ll, key) ==
    LET i == IndexOf(ll, key)
    IN  IF i = 0 THEN "" ELSE ll[i].value

\* Get that forgets list.MoveToFront
GetNoMove(s, key) ==
    IF key \in s.cache
    THEN [c |-> s, value |-> ValueOf(s.ll, key), ok |-> TRUE]
    ELSE [c |-> s, value |-> "", ok |-> FALSE]

\* Get that makes an empty entry for a key it does not find
GetDefaulting(s, key) ==
    IF key \in s.cache
    THEN [c |-> [s EXCEPT !.ll = MoveToFront(s.ll, key)],
          value |-> ValueOf(s.ll, key), ok |-> TRUE]
    ELSE [c |-> [s EXCEPT !.ll = PushFront(s.ll, [key |-> key, value |-> ""]),
                          !.cache = s.cache \cup {key},
                          !.nbytes = s.nbytes + Len(key)],
          value |-> "", ok |-> FALSE]

\* Cache.Get: the store afterwards, the value and ok
Get(s, key) ==
    IF key \in s.cache
    THEN [c |-> [s EXCEPT !.ll = MoveToFront(s.ll, key)],
          value |-> ValueOf(s.ll, key), ok |-> TRUE]
    ELSE [c |-> s, value |-> "", ok |-> FALSE]

\* list, map and size at the time the callback is invoked
Snapshot(ll, cache, nbytes) == [ll |-> ll, cache |-> cache, nbytes |-> nbytes]

\* RemoveOldest that forgets delete(c.cache, kv.key)
RemoveOldestKeepKey(s) ==
    IF s.ll = <<>>
    THEN s
    ELSE LET kv == s.ll[Len(s.ll)]
         IN  [s EXCEPT !.ll = SubSeq(s.ll, 1, Len(s.ll) - 1),
                       !.nbytes = s.nbytes - EntryBytes(kv),
                       !.evicted = IF s.OnEvicted
                                   THEN Append(s.evicted, <<kv.key, kv.value>>)
                                   ELSE s.evicted,
                       !.seen = IF s.OnEvicted
                                THEN Append(s.seen,
                                            Snapshot(SubSeq(s.ll, 1, Len(s.ll) - 1), s.cache,
                                                     s.nbytes - EntryBytes(kv)))
                                ELSE s.seen]

\* Cache.RemoveOldest: the callback runs last, lines 55-57, once list, map and
\* size have let go of the entry
RemoveOldest(s) ==
    IF s.ll = <<>>
    THEN s
    ELSE LET kv == s.ll[Len(s.ll)]
         IN  [s EXCEPT !.ll = SubSeq(s.ll, 1, Len(s.ll) - 1),
                       !.cache = s.cache \ {kv.key},
                       !.nbytes = s.nbytes - EntryBytes(kv),
                       !.evicted = IF s.OnEvicted
                                   THEN Append(s.evicted, <<kv.key, kv.value>>)
                                   ELSE s.evicted,
                       !.seen = IF s.OnEvicted
                                THEN Append(s.seen,
                                            Snapshot(SubSeq(s.ll, 1, Len(s.ll) - 1),
                                                     s.cache \ {kv.key},
                                                     s.nbytes - EntryBytes(kv)))
                                ELSE s.seen]

\* the eviction of Add written with "if" for "for": one eviction at most
EvictOnce(s) ==
    IF s.maxBytes # 0 /\ s.maxBytes < s.nbytes
    THEN RemoveOldest(s)
    ELSE s

\* the loop of Add, lines 74-76: RemoveOldest on an empty list changes nothing,
\* so the loop never ends once the list is empty and the bound is still exceeded
RECURSIVE EvictLoop(_)
EvictLoop(s) ==
    IF s.maxBytes # 0 /\ s.maxBytes < s.nbytes
    THEN IF s.ll = <<>>
         THEN [s EXCEPT !.hung = TRUE]
         ELSE EvictLoop(RemoveOldest(s))
    ELSE s

\* the update of Add adding the new length without taking the old one off
UpsertNoDelta(s, key, value) ==
    IF key \in s.cache
    THEN LET i == IndexOf(s.ll, key)
             moved == MoveToFront(s.ll, key)
         IN  [s EXCEPT !.ll = IF i = 0 THEN moved
                              ELSE [moved EXCEPT ![1].value = value],
                       !.nbytes = s.nbytes + Len(value)]
    ELSE [s EXCEPT !.ll = PushFront(s.ll, [key |-> key, value |-> value]),
                   !.cache = s.cache \cup {key},
                   !.nbytes = s.nbytes + Len(key) + Len(value)]

\* the update of Add handing the replaced value to the callback
UpsertCallingBack(s, key, value) ==
    IF key \in s.cache
    THEN LET i == IndexOf(s.ll, key)
             moved == MoveToFront(s.ll, key)
         IN  [s EXCEPT !.ll = IF i = 0 THEN moved
                              ELSE [moved EXCEPT ![1].value = value],
                       !.nbytes = s.nbytes + Len(value) - Len(ValueOf(s.ll, key)),
                       !.evicted = IF s.OnEvicted
                                   THEN Append(s.evicted, <<key, ValueOf(s.ll, key)>>)
                                   ELSE s.evicted,
                       !.seen = IF s.OnEvicted
                                THEN Append(s.seen, Snapshot(s.ll, s.cache \ {key}, s.nbytes))
                                ELSE s.seen]
    ELSE [s EXCEPT !.ll = PushFront(s.ll, [key |-> key, value |-> value]),
                   !.cache = s.cache \cup {key},
                   !.nbytes = s.nbytes + Len(key) + Len(value)]

\* Add, lines 63-73: update in place or insert at the front
Upsert(s, key, value) ==
    IF key \in s.cache
    THEN LET i == IndexOf(s.ll, key)
             moved == MoveToFront(s.ll, key)
         IN  [s EXCEPT !.ll = IF i = 0 THEN moved
                              ELSE [moved EXCEPT ![1].value = value],
                       !.nbytes = s.nbytes + Len(value) - Len(ValueOf(s.ll, key))]
    ELSE [s EXCEPT !.ll = PushFront(s.ll, [key |-> key, value |-> value]),
                   !.cache = s.cache \cup {key},
                   !.nbytes = s.nbytes + Len(key) + Len(value)]

\* Cache.Add
Add(s, key, value) == EvictLoop(Upsert(s, key, value))

\* Cache.Len
CacheLen(s) == Len(s.ll)

\* the callback's log is per operation
Fresh(s) == [s EXCEPT !.evicted = <<>>, !.seen = <<>>]

-----------------------------------------------------------------------------
(* The history of accesses: the resident keys by their last access (a Get  *)
(* hit or an Add), oldest first.  It is kept from the operations' inputs   *)
(* and results alone, never from the list.                                 *)

\* seq without the keys outside keep
RECURSIVE Keep(_, _)
Keep(seq, keep) ==
    IF seq = <<>> THEN <<>>
    ELSE IF Head(seq) \in keep
         THEN <<Head(seq)>> \o Keep(Tail(seq), keep)
         ELSE Keep(Tail(seq), keep)

\* key was accessed now; resident are the keys left in the store afterwards
Touch(hist, key, resident) ==
    Keep(Append(Keep(hist, resident \ {key}), key), resident)

-----------------------------------------------------------------------------
(* geecache.go: the cache group.  Callers run Group.Get concurrently; each *)
(* step below is one access to shared state (the store under its lock, the *)
(* deduplicator's table under its lock) or one blocking call (the peer,    *)
(* the loader).                                                            *)

\* the number of concurrent callers of the deduplication scenario
NCallers == 3

Procs == 1..NCallers

\* the callers that keep issuing requests in SpecGroup
Clients == {1, 2}

\* the keys callers ask for
GKeys == {"k", "kk"}

\* what the loader (Getter.Get) may return for a key: bytes, or an error
LoaderVals == {"v", "www"}

LoaderErrs == {"not found"}

\* what the nominated peer (PeerGetter.Get) may return: bytes, or an error
PeerVals == {"r"}

PeerErrs == {"server returned: 500"}

\* cacheBytes handed to NewGroup
CacheBytesChoices == {0, 3, 4}

\* a caller between two requests
Idle == [pc |-> "idle", key |-> "", val |-> "", err |-> "", trail |-> <<>>]

NoRecent == [key |-> "", val |-> "", by |-> 0, stage |-> "none", how |-> "", absent |-> FALSE]

\* NewGroup: the group with an empty store, no picker and no call in flight
NewGroup(cacheBytes) ==
    /\ mainCache = New(cacheBytes, FALSE)
    /\ peers = "nil"
    /\ fault = ""
    /\ m = <<>>
    /\ req = [p \in Procs |-> Idle]
    /\ recent = NoRecent

\* the group of the specifications that only drive the stand-alone store
GroupAtRest == NewGroup(0)

\* the stand-alone store of the specifications that only drive the group
StoreAtRest ==
    /\ c = New(0, FALSE)
    /\ recency = <<>>
    /\ last = [op |-> "New", key |-> "", value |-> "", ok |-> FALSE, old |-> ""]

\* Get without the check of the key
KeyRequiredNever(key) == FALSE

\* Group.Get, lines 76-78: the empty key is refused
KeyRequired(key) == key = ""

\* ByteView{b: cloneBytes(bytes)}: a copy with the same bytes
ByteView(bytes) == bytes

\* cache.get: the store's Get under the store's lock
CacheGet(s, key) == Get(Fresh(s), key)

\* cache.add: the store's Add under the store's lock
CacheAdd(s, key, value) == Add(Fresh(s), key, value)

\* what Group.load hands back from the deduplicator's (val, err), lines 108-111
LoadResult(v, e) == IF e = "" THEN [val |-> v, err |-> ""] ELSE [val |-> "", err |-> e]

Step(r, pc, name, payload) ==
    [r EXCEPT !.pc = pc, !.trail = Append(r.trail, <<name, payload>>)]

\* the deduplicator's record of a call in flight
Call(owner) == [owner |-> owner, done |-> FALSE, val |-> "", err |-> ""]

\* Do, the end of fn: the call records its result and wakes the callers that
\* joined it; each of them returns the shared result
Broadcast(p, v, e) ==
    [q \in Procs |->
        IF q # p /\ req[q].pc = "wait" /\ req[q].key = req[p].key
        THEN [Step(req[q], "ret", "shared", IF e = "" THEN v ELSE e)
                 EXCEPT !.val = LoadResult(v, e).val, !.err = LoadResult(v, e).err]
        ELSE req[q]]

Finished(p, v, e) == [m EXCEPT ![req[p].key] = [@ EXCEPT !.done = TRUE, !.val = v, !.err = e]]

\* Do, the removal of the call: delete(g.m, key)
Forget(table, key) == [k \in DOMAIN table \ {key} |-> table[k]]

\* the history of the last resolution: "resolved" by the local load (how =
\* "local") or by the peer's answer (how = "remote", absent: the store did not
\* hold the key then), "returned" once its Get has returned, "asked" when the
\* next call is a Get of the same key, "again" when that Get has read the
\* store; any other step ends it
Resolved(p, value, how) ==
    [key |-> req[p].key, val |-> value, by |-> p, stage |-> "resolved", how |-> how,
     absent |-> req[p].key \notin mainCache.cache]

Advance(p, from, to) ==
    IF recent.by = p /\ recent.stage = from
    THEN [recent EXCEPT !.stage = to]
    ELSE NoRecent

Running == fault = ""

\* Group.Get, lines 76-78: the caller once Get has looked at its key
Asked(key) ==
    IF KeyRequired(key)
    THEN [Step(Idle, "ret", "invalid", "") EXCEPT !.err = "key is required"]
    ELSE [Idle EXCEPT !.pc = "get", !.key = key]

\* Group.Get is called with key; lines 76-78
GroupGet(p, key) ==
    /\ Running
    /\ UNCHANGED nonGroupVars
    /\ req[p].pc = "idle"
    /\ req' = [req EXCEPT ![p] = Asked(key)]
    /\ recent' = IF recent.stage = "returned" /\ key = recent.key
                  THEN [recent EXCEPT !.stage = "asked", !.by = p]
                  ELSE NoRecent
    /\ UNCHANGED <<mainCache, peers, fault, m>>

\* Group.Get going on to load whatever the store answered
GetAlwaysLoads(p) ==
    /\ Running
    /\ UNCHANGED nonGroupVars
    /\ req[p].pc = "get"
    /\ mainCache' = CacheGet(mainCache, req[p].key).c
    /\ req' = [req EXCEPT ![p] = Step(@, "do", "miss", "")]
    /\ recent' = Advance(p, "asked", "again")
    /\ UNCHANGED <<peers, fault, m>>

\* Group.Get, lines 80-85: the store is read; a hit returns
GetFromCache(p) ==
    /\ Running
    /\ UNCHANGED nonGroupVars
    /\ req[p].pc = "get"
    /\ LET r == CacheGet(mainCache, req[p].key)
       IN  /\ mainCache' = r.c
           /\ req' = [req EXCEPT ![p] =
                         IF r.ok
                         THEN [Step(@, "ret", "hit", r.value) EXCEPT !.val = r.value]
                         ELSE Step(@, "do", "miss", "")]
    /\ recent' = Advance(p, "asked", "again")
    /\ UNCHANGED <<peers, fault, m>>

\* Group.load, line 97, loader.Do: join the call in flight, or register one
Do(p) ==
    /\ Running
    /\ UNCHANGED nonGroupVars
    /\ req[p].pc = "do"
    /\ LET key == req[p].key
       IN  IF key \in DOMAIN m
           THEN /\ req' = [req EXCEPT ![p] =
                              IF m[key].done
                              THEN [Step(@, "ret", "shared",
                                         IF m[key].err = "" THEN m[key].val ELSE m[key].err)
                                       EXCEPT !.val = LoadResult(m[key].val, m[key].err).val,
                                              !.err = LoadResult(m[key].val, m[key].err).err]
                              ELSE Step(@, "wait", "join", "")]
                /\ m' = m
           ELSE /\ req' = [req EXCEPT ![p] = Step(@, "pick", "register", "")]
                /\ m' = [k \in DOMAIN m \cup {key} |-> IF k = key THEN Call(p) ELSE m[k]]
    /\ recent' = NoRecent
    /\ UNCHANGED <<mainCache, peers, fault>>

\* PeerPicker.PickPeer: a picker nominates a remote peer for the key, or none
\* (the key is this node's own); without a picker nobody is asked
Nominations(picker) == IF picker = "nil" THEN {"none"} ELSE {"peer", "self"}

\* Group.load, lines 98-99 and 106: fetch from the nominated peer, or load locally
PickPeer(p) ==
    /\ Running
    /\ UNCHANGED nonGroupVars
    /\ req[p].pc = "pick"
    /\ \E n \in Nominations(peers) :
          req' = [req EXCEPT ![p] = Step(@, IF n = "peer" THEN "fetch" ELSE "load", "pick", n)]
    /\ recent' = NoRecent
    /\ UNCHANGED <<mainCache, peers, fault, m>>

\* load keeping what the peer sent in the store
GetFromPeerCaching(p) ==
    /\ Running
    /\ UNCHANGED nonGroupVars
    /\ req[p].pc = "fetch"
    /\ \/ \E bytes \in PeerVals :
            /\ req' = [Broadcast(p, ByteView(bytes), "") EXCEPT ![p] =
                          [Step(@, "delete", "fetch-ok", bytes) EXCEPT !.val = ByteView(bytes)]]
            /\ m' = Finished(p, ByteView(bytes), "")
            /\ recent' = Resolved(p, ByteView(bytes), "remote")
            /\ mainCache' = CacheAdd(mainCache, req[p].key, ByteView(bytes))
       \/ \E e \in PeerErrs :
            /\ req' = [req EXCEPT ![p] = Step(@, "load", "fetch-err", e)]
            /\ m' = m
            /\ recent' = NoRecent
            /\ mainCache' = mainCache
    /\ UNCHANGED <<peers, fault>>

\* load giving up with the peer's error, the loader never asked
GetFromPeerNoFallback(p) ==
    /\ Running
    /\ UNCHANGED nonGroupVars
    /\ req[p].pc = "fetch"
    /\ \/ \E bytes \in PeerVals :
            /\ req' = [Broadcast(p, ByteView(bytes), "") EXCEPT ![p] =
                          [Step(@, "delete", "fetch-ok", bytes) EXCEPT !.val = ByteView(bytes)]]
            /\ m' = Finished(p, ByteView(bytes), "")
            /\ recent' = Resolved(p, ByteView(bytes), "remote")
       \/ \E e \in PeerErrs :
            /\ req' = [Broadcast(p, "", e) EXCEPT ![p] =
                          [Step(@, "delete", "fetch-err", e) EXCEPT !.err = e]]
            /\ m' = Finished(p, "", e)
            /\ recent' = NoRecent
    /\ UNCHANGED <<mainCache, peers, fault>>

\* Group.load, lines 100-103, getFromPeer: the peer answers with bytes, which
\* end fn, or with an error, which is logged
GetFromPeer(p) ==
    /\ Running
    /\ UNCHANGED nonGroupVars
    /\ req[p].pc = "fetch"
    /\ \/ \E bytes \in PeerVals :
            /\ req' = [Broadcast(p, ByteView(bytes), "") EXCEPT ![p] =
                          [Step(@, "delete", "fetch-ok", bytes) EXCEPT !.val = ByteView(bytes)]]
            /\ m' = Finished(p, ByteView(bytes), "")
            /\ recent' = Resolved(p, ByteView(bytes), "remote")
       \/ \E e \in PeerErrs :
            /\ req' = [req EXCEPT ![p] = Step(@, "load", "fetch-err", e)]
            /\ m' = m
            /\ recent' = NoRecent
    /\ UNCHANGED <<mainCache, peers, fault>>

\* getLocally going on after the loader's error and storing the empty value
GetLocallyCachesFailure(p) ==
    /\ Running
    /\ UNCHANGED nonGroupVars
    /\ req[p].pc = "load"
    /\ \/ \E bytes \in LoaderVals :
            /\ req' = [req EXCEPT ![p] =
                          [Step(@, "populate", "load-ok", bytes) EXCEPT !.val = ByteView(bytes)]]
            /\ m' = m
            /\ mainCache' = mainCache
       \/ \E e \in LoaderErrs :
            /\ req' = [Broadcast(p, "", e) EXCEPT ![p] =
                          [Step(@, "delete", "load-err", e) EXCEPT !.err = e]]
            /\ m' = Finished(p, "", e)
            /\ mainCache' = CacheAdd(mainCache, req[p].key, ByteView(""))
    /\ recent' = NoRecent
    /\ UNCHANGED <<peers, fault>>

\* Group.getLocally, lines 116-121: the loader answers with bytes or with an
\* error, which ends fn
GetLocally(p) ==
    /\ Running
    /\ UNCHANGED nonGroupVars
    /\ req[p].pc = "load"
    /\ \/ \E bytes \in LoaderVals :
            /\ req' = [req EXCEPT ![p] =
                          [Step(@, "populate", "load-ok", bytes) EXCEPT !.val = ByteView(bytes)]]
            /\ m' = m
       \/ \E e \in LoaderErrs :
            /\ req' = [Broadcast(p, "", e) EXCEPT ![p] =
                          [Step(@, "delete", "load-err", e) EXCEPT !.err = e]]
            /\ m' = Finished(p, "", e)
    /\ recent' = NoRecent
    /\ UNCHANGED <<mainCache, peers, fault>>

\* getLocally returning the value without populateCache
PopulateNothing(p) ==
    /\ Running
    /\ UNCHANGED nonGroupVars
    /\ req[p].pc = "populate"
    /\ req' = [Broadcast(p, req[p].val, "") EXCEPT ![p] =
                  Step(@, "delete", "populate", req[p].val)]
    /\ m' = Finished(p, req[p].val, "")
    /\ recent' = Resolved(p, req[p].val, "local")
    /\ UNCHANGED <<mainCache, peers, fault>>

\* Group.getLocally, line 123, populateCache: the value enters the store and
\* ends fn
PopulateCache(p) ==
    /\ Running
    /\ UNCHANGED nonGroupVars
    /\ req[p].pc = "populate"
    /\ mainCache' = CacheAdd(mainCache, req[p].key, req[p].val)
    /\ req' = [Broadcast(p, req[p].val, "") EXCEPT ![p] =
                  Step(@, "delete", "populate", req[p].val)]
    /\ m' = Finished(p, req[p].val, "")
    /\ recent' = Resolved(p, req[p].val, "local")
    /\ UNCHANGED <<peers, fault>>

\* Do, after fn: the call leaves the table, and Group.load returns
Delete(p) ==
    /\ Running
    /\ UNCHANGED nonGroupVars
    /\ req[p].pc = "delete"
    /\ m' = Forget(m, req[p].key)
    /\ req' = [req EXCEPT ![p] =
                  [Step(@, "ret", "delete", "")
                      EXCEPT !.val = LoadResult(req[p].val, req[p].err).val]]
    /\ recent' = Advance(p, "resolved", "resolved")
    /\ UNCHANGED <<mainCache, peers, fault>>

\* Group.Get has returned to its caller
Return(p) ==
    /\ Running
    /\ UNCHANGED nonGroupVars
    /\ req[p].pc = "ret"
    /\ req' = [req EXCEPT ![p] = Idle]
    /\ recent' = Advance(p, "resolved", "returned")
    /\ UNCHANGED <<mainCache, peers, fault, m>>

\* the picker a registering goroutine hands in
PickerOf(r) == IF r = 1 THEN "picker" ELSE "picker2"

\* Group.RegisterPeers, lines 141-143: g.peers is read, without any lock; a
\* picker found there panics
RegisterPeersCheck(r) ==
    /\ Running
    /\ UNCHANGED nonRegisterVars
    /\ reg[r] = "idle"
    /\ IF peers # "nil"
       THEN /\ fault' = "RegisterPeerPicker called more than once"
            /\ reg' = [reg EXCEPT ![r] = "panicked"]
       ELSE /\ fault' = fault
            /\ reg' = [reg EXCEPT ![r] = "checked"]
    /\ recent' = NoRecent
    /\ UNCHANGED <<mainCache, peers, m, req>>

\* Group.RegisterPeers, line 144: g.peers is written, without any lock
RegisterPeersBind(r) ==
    /\ Running
    /\ UNCHANGED nonRegisterVars
    /\ reg[r] = "checked"
    /\ peers' = PickerOf(r)
    /\ reg' = [reg EXCEPT ![r] = "bound"]
    /\ recent' = NoRecent
    /\ UNCHANGED <<mainCache, fault, m, req>>

\* Group.RegisterPeers called by the one goroutine that sets the node up, no
\* other registration running: a second registration panics
RegisterPeers ==
    /\ Running
    /\ UNCHANGED nonGroupVars
    /\ IF peers # "nil"
       THEN /\ fault' = "RegisterPeerPicker called more than once"
            /\ peers' = peers
       ELSE /\ peers' = "picker"
            /\ fault' = fault
    /\ recent' = NoRecent
    /\ UNCHANGED <<mainCache, m, req>>

InitGroup ==
    /\ \E cacheBytes \in CacheBytesChoices : NewGroup(cacheBytes)
    /\ StoreAtRest
    /\ OthersAtRest

NextGroup ==
    \/ \E p \in Clients, key \in GKeys \cup {""} : GroupGet(p, key)
    \/ \E p \in Procs : GetFromCache(p)
    \/ \E p \in Procs : Do(p)
    \/ \E p \in Procs : PickPeer(p)
    \/ \E p \in Procs : GetFromPeer(p)
    \/ \E p \in Procs : GetLocally(p)
    \/ \E p \in Procs : PopulateCache(p)
    \/ \E p \in Procs : Delete(p)
    \/ \E p \in Procs : Return(p)
    \/ RegisterPeers

SpecGroup == InitGroup /\ [][NextGroup]_vars

\* the registration scenario: the goroutines of Registrars each call
\* RegisterPeers once while a caller keeps asking for a key
RegisterKey == "k"

NextRegister ==
    \/ \E r \in Registrars : RegisterPeersCheck(r)
    \/ \E r \in Registrars : RegisterPeersBind(r)
    \/ GroupGet(1, RegisterKey)
    \/ \E p \in Procs : GetFromCache(p)
    \/ \E p \in Procs : Do(p)
    \/ \E p \in Procs : PickPeer(p)
    \/ \E p \in Procs : GetFromPeer(p)
    \/ \E p \in Procs : GetLocally(p)
    \/ \E p \in Procs : PopulateCache(p)
    \/ \E p \in Procs : Delete(p)
    \/ \E p \in Procs : Return(p)

SpecRegister == InitGroup /\ [][NextRegister]_vars

\* the deduplication scenario: every caller has just called Get for the same
\* key, which the store does not hold, on a group without a picker
DedupKey == "k"

InitDedup ==
    /\ \E cacheBytes \in CacheBytesChoices : mainCache = New(cacheBytes, FALSE)
    /\ peers = "nil"
    /\ fault = ""
    /\ m = <<>>
    /\ req = [p \in Procs |-> [Idle EXCEPT !.pc = "get", !.key = DedupKey]]
    /\ recent = NoRecent
    /\ StoreAtRest
    /\ OthersAtRest

NextDedup ==
    \/ \E p \in Procs : GetFromCache(p)
    \/ \E p \in Procs : Do(p)
    \/ \E p \in Procs : PickPeer(p)
    \/ \E p \in Procs : GetLocally(p)
    \/ \E p \in Procs : PopulateCache(p)
    \/ \E p \in Procs : Delete(p)

SpecDedup == InitDedup /\ [][NextDedup]_vars

-----------------------------------------------------------------------------
(* http.go: the server half of the peer transport.  ServeHTTP runs in a    *)
(* goroutine of its own and calls Group.Get like any other caller; a path  *)
(* is modelled by the characters that follow the base path.                *)

\* the caller of Group.Get that is the handler's goroutine
Server == 3

\* r.URL.Path[len(p.basePath):] of the requests sent to the server
Paths ==
    { <<>>, <<"g">>, <<"g", "/">>, <<"/", "k">>, <<"g", "/", "k">>,
      <<"h", "/", "k">>, <<"g", "/", "k", "/", "x">> }

StatusOK == 200

StatusBadRequest == 400

StatusNotFound == 404

StatusInternalServerError == 500

\* the string of a sequence of characters
RECURSIVE Join(_)
Join(chars) == IF chars = <<>> THEN "" ELSE Head(chars) \o Join(Tail(chars))

\* strings.Index: where sep comes first in chars, 0 when it does not
Index(chars, sep) ==
    IF \E i \in 1..Len(chars) : chars[i] = sep
    THEN CHOOSE i \in 1..Len(chars) :
             chars[i] = sep /\ \A j \in 1..(i - 1) : chars[j] # sep
    ELSE 0

\* strings.SplitN(s, sep, n) for n > 0: at most n substrings, each by its
\* characters, the last one the unsplit remainder
RECURSIVE SplitN(_, _, _)
SplitN(chars, sep, n) ==
    LET i == Index(chars, sep)
    IN  IF n = 1 \/ i = 0
        THEN <<chars>>
        ELSE <<SubSeq(chars, 1, i - 1)>>
                 \o SplitN(SubSeq(chars, i + 1, Len(chars)), sep, n - 1)

\* GetGroup: the group bound to name, 0 (nil) when there is none
GetGroup(registry, name) == IF name \in DOMAIN registry THEN registry[name] ELSE 0

\* http.Error(w, msg, code): the status and msg as the body's line
HttpError(path, msg, code) ==
    [pc |-> "done", path |-> path, status |-> code, body |-> msg,
     called |-> FALSE, key |-> ""]

\* ServeHTTP, lines 56-73: the path is split, the group looked up and its Get
\* called
ServeHTTP(path) ==
    /\ Running
    /\ UNCHANGED nonServeVars
    /\ http.pc # "get"
    /\ req[Server].pc = "idle"
    /\ LET parts == SplitN(path, "/", 2)
       IN  IF Len(parts) # 2
           THEN /\ http' = HttpError(path, "bad request", StatusBadRequest)
                /\ req' = req
           ELSE IF GetGroup(groups, Join(parts[1])) = 0
                THEN /\ http' = HttpError(path, "no suck group: " \o Join(parts[1]),
                                          StatusNotFound)
                     /\ req' = req
                ELSE /\ http' = [pc |-> "get", path |-> path, status |-> 0, body |-> "",
                                 called |-> TRUE, key |-> Join(parts[2])]
                     /\ req' = [req EXCEPT ![Server] = Asked(Join(parts[2]))]
    /\ recent' = NoRecent
    /\ UNCHANGED <<mainCache, peers, fault, m>>

\* ServeHTTP, lines 74-81: Get has returned; its error or its bytes are sent
WriteResponse ==
    /\ Running
    /\ UNCHANGED nonServeVars
    /\ http.pc = "get"
    /\ req[Server].pc = "ret"
    /\ http' = IF req[Server].err # ""
               THEN [HttpError(http.path, req[Server].err, StatusInternalServerError)
                        EXCEPT !.called = TRUE, !.key = http.key]
               ELSE [http EXCEPT !.pc = "done", !.status = StatusOK,
                                 !.body = req[Server].val]
    /\ req' = [req EXCEPT ![Server] = Idle]
    /\ recent' = NoRecent
    /\ UNCHANGED <<mainCache, peers, fault, m>>

NextServe ==
    \/ \E path \in Paths : ServeHTTP(path)
    \/ \E p \in Procs : GetFromCache(p)
    \/ \E p \in Procs : Do(p)
    \/ \E p \in Procs : PickPeer(p)
    \/ \E p \in Procs : GetLocally(p)
    \/ \E p \in Procs : PopulateCache(p)
    \/ \E p \in Procs : Delete(p)
    \/ WriteResponse

SpecServe == InitGroup /\ [][NextServe]_vars

-----------------------------------------------------------------------------
(* geecache.go: the registry of groups.  NewGroup and GetGroup work on the *)
(* map under the lock mu; a group is known by the number of its creation.  *)

\* the number of groups NewGroup makes
MaxGroups == 4

\* the names handed to NewGroup and GetGroup
Names == {"g", "h"}

\* the getters handed to NewGroup: none, or a function
Getters == {"nil", "f"}

\* groups[name] = g
Bind(registry, name, g) ==
    [n \in DOMAIN registry \cup {name} |-> IF n = name THEN g ELSE registry[n]]

\* the first group made under each name
FirstOf(first, name, g) == IF name \in DOMAIN first THEN first ELSE Bind(first, name, g)

InitRegistry ==
    /\ groups = <<>>
    /\ regHist = [made |-> 0, first |-> <<>>,
                  last |-> [op |-> "none", name |-> "", result |-> 0]]
    /\ StoreAtRest
    /\ GroupAtRest
    /\ RegistrarsAtRest /\ ServerAtRest /\ PoolAtRest /\ ClusterAtRest

\* NewGroup, lines 48-62: a nil getter panics before the lock is taken;
\* otherwise a new group is made, bound to the name and returned
NewGroupCall(name, getter) ==
    /\ Running
    /\ UNCHANGED nonRegistryVars
    /\ regHist.made < MaxGroups
    /\ IF getter = "nil"
       THEN /\ fault' = "nil Getter"
            /\ groups' = groups
            /\ regHist' = [regHist EXCEPT
                               !.last = [op |-> "NewGroup", name |-> name, result |-> 0]]
       ELSE LET g == regHist.made + 1
            IN  /\ fault' = fault
                /\ groups' = Bind(groups, name, g)
                /\ regHist' = [made |-> g,
                               first |-> FirstOf(regHist.first, name, g),
                               last |-> [op |-> "NewGroup", name |-> name, result |-> g]]

\* GetGroup, lines 66-71
GetGroupCall(name) ==
    /\ Running
    /\ UNCHANGED nonRegistryVars
    /\ UNCHANGED <<fault, groups>>
    /\ regHist' = [regHist EXCEPT
                       !.last = [op |-> "GetGroup", name |-> name,
                                 result |-> GetGroup(groups, name)]]

NextRegistry ==
    \/ \E name \in Names, getter \in Getters : NewGroupCall(name, getter)
    \/ \E name \in Names : GetGroupCall(name)

SpecRegistry == InitRegistry /\ [][NextRegistry]_vars

-----------------------------------------------------------------------------
(* http.go: the HTTPPool as the group's picker.  Set and PickPeer run      *)
(* under the pool's lock.                                                  *)

\* the longest list of peers handed to Set
MaxPeers == 2

\* the lists of peers handed to Set
PeerLists == UNION {[1..n -> Addresses] : n \in 0..MaxPeers}

Range(seq) == {seq[i] : i \in 1..Len(seq)}

\* consistenthash.New and Map.Add: the rings the peers can make, each giving
\* every key one of the peers added, whatever the hash; with no peer added
\* the ring is empty and gives no peer
Rings(peerList) ==
    IF peerList = <<>>
    THEN {[key \in PoolKeys |-> ""]}
    ELSE [PoolKeys -> Range(peerList)]

\* consistenthash.Map.Get: the peer of the key's place on the ring
RingGet(ring, key) == ring[key]

\* HTTPPool.Set: a new ring of the peers and a new table with a client each
Set(pl, peerList, ring) ==
    [pl EXCEPT !.isSet = TRUE,
               !.peers = ring,
               !.httpGetters =
                   [peer \in Range(peerList) |->
                       [isNil |-> FALSE, baseURL |-> peer \o pl.basePath]]]

\* p.httpGetters[peer]: a nil pointer for a peer the table does not hold
ClientOf(pl, peer) ==
    IF peer \in DOMAIN pl.httpGetters THEN pl.httpGetters[peer] ELSE NilGetter

\* PickPeer handing out the client of whatever peer the ring gives
PickPeerAnyOwner(pl, key) ==
    LET peer == RingGet(pl.peers, key)
    IN  IF peer # ""
        THEN [getter |-> ClientOf(pl, peer), ok |-> TRUE]
        ELSE [getter |-> NilGetter, ok |-> FALSE]

\* HTTPPool.PickPeer
HTTPPoolPickPeer(pl, key) ==
    LET peer == RingGet(pl.peers, key)
    IN  IF peer # "" /\ peer # pl.self
        THEN [getter |-> ClientOf(pl, peer), ok |-> TRUE]
        ELSE [getter |-> NilGetter, ok |-> FALSE]

InitPool ==
    /\ \E self \in Addresses : pool = NewHTTPPool(self)
    /\ poolHist = NoPick
    /\ StoreAtRest
    /\ GroupAtRest
    /\ RegistrarsAtRest /\ RegistryAtRest /\ ServerAtRest /\ ClusterAtRest

PoolSet(peerList) ==
    /\ UNCHANGED nonPoolVars
    /\ \E ring \in Rings(peerList) : pool' = Set(pool, peerList, ring)
    /\ poolHist' = [NoPick EXCEPT !.op = "Set", !.set = peerList,
                                  !.before = poolHist.set]

\* PickPeer is called once the pool has its peers
PoolPickPeer(key) ==
    /\ UNCHANGED nonPoolVars
    /\ pool.isSet
    /\ pool' = pool
    /\ poolHist' = [poolHist EXCEPT !.op = "PickPeer", !.key = key,
                                    !.getter = HTTPPoolPickPeer(pool, key).getter,
                                    !.ok = HTTPPoolPickPeer(pool, key).ok]

NextPool ==
    \/ \E peerList \in PeerLists : PoolSet(peerList)
    \/ \E key \in PoolKeys : PoolPickPeer(key)

SpecPool == InitPool /\ [][NextPool]_vars

-----------------------------------------------------------------------------
(* A cluster.  Every node runs the group GroupName with an HTTPPool as its *)
(* picker, Set with the addresses of all nodes, its own among them.  A     *)
(* node has one local caller; the request a peer sends is served by a      *)
(* goroutine of its own, which calls Group.Get like the local caller.      *)

Nodes == {1, 2}

\* the goroutines of a node: the local caller, the handler of a request sent
\* by a peer's local caller, the handler of a request sent by a peer's handler
Roles == {"client", "h1", "h2"}

Slots == Nodes \X Roles

AddressOf(n) == IF n = 1 THEN "http://a" ELSE "http://b"

\* the peers every node is Set with
ClusterPeers == <<"http://a", "http://b">>

\* the group's name, by its characters
ClusterGroup == <<"g">>

\* the keys the local callers ask for, by their characters
ClusterKeys == { <<"a", " ", "b">>, <<"a", "+", "b">> }

\* what the loader returns
ClusterVals == {"v"}

NoCall == [pc |-> "idle", key |-> <<>>, val |-> "", err |-> "", status |-> 0,
           to |-> 0, from |-> <<0, "none">>, hops |-> 0]

\* url.QueryEscape of one character: a space becomes "+", the other
\* characters that are neither letters nor digits become %XX
EscapeChar(ch) ==
    CASE ch = " " -> <<"+">>
      [] ch = "+" -> <<"%", "2", "B">>
      [] ch = "/" -> <<"%", "2", "F">>
      [] ch = "%" -> <<"%", "2", "5">>
      [] OTHER -> <<ch>>

\* url.QueryEscape
RECURSIVE QueryEscape(_)
QueryEscape(chars) ==
    IF chars = <<>> THEN <<>> ELSE EscapeChar(Head(chars)) \o QueryEscape(Tail(chars))

\* the character %XX stands for
Unhex(hi, lo) ==
    CASE hi = "2" /\ lo = "B" -> "+"
      [] hi = "2" /\ lo = "F" -> "/"
      [] hi = "2" /\ lo = "5" -> "%"
      [] OTHER -> "?"

\* the path of the request as the server's r.URL.Path holds it: %XX is
\* decoded, "+" is a plus sign in a path
RECURSIVE PathUnescape(_)
PathUnescape(chars) ==
    IF chars = <<>> THEN <<>>
    ELSE IF Head(chars) = "%" /\ Len(chars) >= 3
         THEN <<Unhex(chars[2], chars[3])>> \o PathUnescape(SubSeq(chars, 4, Len(chars)))
         ELSE <<Head(chars)>> \o PathUnescape(Tail(chars))

\* httpGetter.Get, lines 111-116: what follows the base URL
URLPath(group, key) == QueryEscape(group) \o <<"/">> \o QueryEscape(key)

\* the node a client's base URL leads to
NodeAt(baseURL) == CHOOSE n \in Nodes : AddressOf(n) \o defaultBasePath = baseURL

\* the goroutine that serves the request of s at the node s asks
HandlerOf(s) == <<calls[s].to, IF s[2] = "client" THEN "h1" ELSE "h2">>

\* ServeHTTP, lines 56-73, and Group.Get, lines 76-78, of the handler
Serve(path, from, hops) ==
    LET parts == SplitN(path, "/", 2)
        h == [NoCall EXCEPT !.from = from, !.hops = hops]
    IN  IF Len(parts) # 2
        THEN [h EXCEPT !.pc = "ret", !.status = StatusBadRequest, !.err = "bad request"]
        ELSE IF GetGroup(groups, Join(parts[1])) = 0
             THEN [h EXCEPT !.pc = "ret", !.status = StatusNotFound,
                            !.err = "no suck group: " \o Join(parts[1])]
             ELSE IF KeyRequired(Join(parts[2]))
                  THEN [h EXCEPT !.pc = "ret", !.err = "key is required"]
                  ELSE [h EXCEPT !.pc = "get", !.key = parts[2]]

\* Do, the end of fn at the node of s: the callers that joined the call return
WakeWaiters(s, v, e) ==
    [q \in Slots |->
        IF q # s /\ q[1] = s[1] /\ calls[q].pc = "wait" /\ calls[q].key = calls[s].key
        THEN [calls[q] EXCEPT !.pc = "ret", !.val = LoadResult(v, e).val,
                              !.err = LoadResult(v, e).err]
        ELSE calls[q]]

\* Do, the end of fn: the call records its result
Finish(table, key, v, e) ==
    [table EXCEPT ![key] = [@ EXCEPT !.done = TRUE, !.val = v, !.err = e]]

InitCluster ==
    /\ \E ring \in Rings(ClusterPeers) :
          nodes = [n \in Nodes |->
                      [pool |-> Set(NewHTTPPool(AddressOf(n)), ClusterPeers, ring),
                       mainCache |-> New(0, FALSE),
                       m |-> <<>>]]
    /\ calls = [s \in Slots |-> NoCall]
    /\ StoreAtRest
    /\ GroupAtRest
    /\ RegistrarsAtRest /\ RegistryAtRest /\ ServerAtRest /\ PoolAtRest

\* Group.Get is called at node n with a key that is not empty
ClusterGet(n, key) ==
    /\ UNCHANGED nonClusterVars
    /\ calls[<<n, "client">>].pc = "idle"
    /\ ~KeyRequired(Join(key))
    /\ calls' = [calls EXCEPT ![<<n, "client">>] = [NoCall EXCEPT !.pc = "get", !.key = key]]
    /\ nodes' = nodes

\* Group.Get, lines 80-85
ClusterGetFromCache(s) ==
    /\ UNCHANGED nonClusterVars
    /\ calls[s].pc = "get"
    /\ LET r == CacheGet(nodes[s[1]].mainCache, Join(calls[s].key))
       IN  /\ nodes' = [nodes EXCEPT ![s[1]].mainCache = r.c]
           /\ calls' = [calls EXCEPT ![s] =
                           IF r.ok
                           THEN [@ EXCEPT !.pc = "ret", !.val = r.value]
                           ELSE [@ EXCEPT !.pc = "do"]]

\* Group.load, line 97, loader.Do
ClusterDo(s) ==
    /\ UNCHANGED nonClusterVars
    /\ calls[s].pc = "do"
    /\ LET key == Join(calls[s].key)
           table == nodes[s[1]].m
       IN  IF key \in DOMAIN table
           THEN /\ calls' = [calls EXCEPT ![s] =
                                IF table[key].done
                                THEN [@ EXCEPT !.pc = "ret",
                                       !.val = LoadResult(table[key].val, table[key].err).val,
                                       !.err = LoadResult(table[key].val, table[key].err).err]
                                ELSE [@ EXCEPT !.pc = "wait"]]
                /\ nodes' = nodes
           ELSE /\ calls' = [calls EXCEPT ![s].pc = "pick"]
                /\ nodes' = [nodes EXCEPT ![s[1]].m = Bind(table, key, Call(s))]

\* Group.load, lines 98-99: the node's pool picks the peer
ClusterPickPeer(s) ==
    /\ UNCHANGED nonClusterVars
    /\ calls[s].pc = "pick"
    /\ LET pick == HTTPPoolPickPeer(nodes[s[1]].pool, Join(calls[s].key))
       IN  calls' = [calls EXCEPT ![s] =
                        IF pick.ok
                        THEN [@ EXCEPT !.pc = "fetch", !.to = NodeAt(pick.getter.baseURL)]
                        ELSE [@ EXCEPT !.pc = "load"]]
    /\ nodes' = nodes

\* httpGetter.Get, lines 111-117: the request reaches the peer, whose
\* ServeHTTP starts in a goroutine of its own
ClusterFetch(s) ==
    /\ UNCHANGED nonClusterVars
    /\ calls[s].pc = "fetch"
    /\ s[2] # "h2"
    /\ calls[HandlerOf(s)].pc = "idle"
    /\ calls' = [calls EXCEPT
                    ![s].pc = "await",
                    ![HandlerOf(s)] =
                        Serve(PathUnescape(URLPath(ClusterGroup, calls[s].key)), s,
                              calls[s].hops + 1)]
    /\ nodes' = nodes

\* httpGetter.Get, lines 118-120: the request fails; load logs the error
ClusterFetchFails(s) ==
    /\ UNCHANGED nonClusterVars
    /\ calls[s].pc = "fetch"
    /\ calls' = [calls EXCEPT ![s].pc = "load"]
    /\ nodes' = nodes

\* the status ServeHTTP answers with, lines 59-81
StatusOf(h) ==
    IF h.status # 0 THEN h.status
    ELSE IF h.err # "" THEN StatusInternalServerError ELSE StatusOK

\* ServeHTTP, lines 74-81, and httpGetter.Get, lines 123-132: the handler
\* answers; bytes end the asking caller's fn, any other status is an error
ClusterRespond(h) ==
    /\ UNCHANGED nonClusterVars
    /\ h[2] # "client"
    /\ calls[h].pc = "ret"
    /\ LET s == calls[h].from
           bytes == calls[h].val
       IN  /\ calls[s].pc = "await"
           /\ IF StatusOf(calls[h]) = StatusOK
              THEN /\ calls' = [WakeWaiters(s, ByteView(bytes), "") EXCEPT
                                   ![s] = [@ EXCEPT !.pc = "delete", !.val = ByteView(bytes)],
                                   ![h] = NoCall]
                   /\ nodes' = [nodes EXCEPT ![s[1]].m =
                                   Finish(@, Join(calls[s].key), ByteView(bytes), "")]
              ELSE /\ calls' = [calls EXCEPT ![s].pc = "load", ![h] = NoCall]
                   /\ nodes' = nodes

\* Group.getLocally, lines 116-121
ClusterGetLocally(s) ==
    /\ UNCHANGED nonClusterVars
    /\ calls[s].pc = "load"
    /\ \/ \E bytes \in ClusterVals :
            /\ calls' = [calls EXCEPT ![s] =
                            [@ EXCEPT !.pc = "populate", !.val = ByteView(bytes)]]
            /\ nodes' = nodes
       \/ \E e \in LoaderErrs :
            /\ calls' = [WakeWaiters(s, "", e) EXCEPT
                            ![s] = [@ EXCEPT !.pc = "delete", !.err = e]]
            /\ nodes' = [nodes EXCEPT ![s[1]].m = Finish(@, Join(calls[s].key), "", e)]

\* Group.getLocally, line 123, populateCache
ClusterPopulateCache(s) ==
    /\ UNCHANGED nonClusterVars
    /\ calls[s].pc = "populate"
    /\ nodes' = [nodes EXCEPT
                    ![s[1]].mainCache = CacheAdd(@, Join(calls[s].key), calls[s].val),
                    ![s[1]].m = Finish(@, Join(calls[s].key), calls[s].val, "")]
    /\ calls' = [WakeWaiters(s, calls[s].val, "") EXCEPT ![s] = [@ EXCEPT !.pc = "delete"]]

\* Do, after fn: the call leaves the table, and Group.load returns
ClusterDelete(s) ==
    /\ UNCHANGED nonClusterVars
    /\ calls[s].pc = "delete"
    /\ nodes' = [nodes EXCEPT ![s[1]].m = Forget(@, Join(calls[s].key))]
    /\ calls' = [calls EXCEPT ![s] =
                    [@ EXCEPT !.pc = "ret", !.val = LoadResult(calls[s].val, calls[s].err).val]]

\* Group.Get has returned to the local caller
ClusterReturn(n) ==
    /\ UNCHANGED nonClusterVars
    /\ calls[<<n, "client">>].pc = "ret"
    /\ calls' = [calls EXCEPT ![<<n, "client">>] = NoCall]
    /\ nodes' = nodes

\* a goroutine inside Get or ServeHTTP takes its next step
Progress(s) ==
    \/ ClusterGetFromCache(s)
    \/ ClusterDo(s)
    \/ ClusterPickPeer(s)
    \/ ClusterFetch(s)
    \/ ClusterFetchFails(s)
    \/ ClusterRespond(s)
    \/ ClusterGetLocally(s)
    \/ ClusterPopulateCache(s)
    \/ ClusterDelete(s)

NextCluster ==
    \/ \E n \in Nodes, key \in ClusterKeys : ClusterGet(n, key)
    \/ \E s \in Slots : ClusterGetFromCache(s)
    \/ \E s \in Slots : ClusterDo(s)
    \/ \E s \in Slots : ClusterPickPeer(s)
    \/ \E s \in Slots : ClusterFetch(s)
    \/ \E s \in Slots : ClusterFetchFails(s)
    \/ \E s \in Slots : ClusterRespond(s)
    \/ \E s \in Slots : ClusterGetLocally(s)
    \/ \E s \in Slots : ClusterPopulateCache(s)
    \/ \E s \in Slots : ClusterDelete(s)
    \/ \E n \in Nodes : ClusterReturn(n)

\* goroutines are scheduled, and loaders and requests come to an end
SpecCluster ==
    /\ InitCluster
    /\ [][NextCluster]_vars
    /\ \A s \in Slots : WF_vars(Progress(s))

-----------------------------------------------------------------------------
(* The eviction store on its own: one client calling New, then Add, Get    *)
(* and RemoveOldest in any order.                                          *)

\* what an operation on key finds: whether the map holds key, and its value then
Found(op, key, value) ==
    [op |-> op, key |-> key, value |-> value,
     ok |-> Get(c, key).ok, old |-> Get(c, key).value]

InitLRU ==
    /\ \E mb \in MaxBytesChoices, cb \in BOOLEAN : c = New(mb, cb)
    /\ recency = <<>>
    /\ last = [op |-> "New", key |-> "", value |-> "", ok |-> FALSE, old |-> ""]
    /\ GroupAtRest
    /\ OthersAtRest

LruAdd(key, value) ==
    /\ ~c.hung
    /\ UNCHANGED nonLruVars
    /\ c' = Add(Fresh(c), key, value)
    /\ recency' = Touch(recency, key, c'.cache)
    /\ last' = Found("Add", key, value)

LruGet(key) ==
    /\ ~c.hung
    /\ UNCHANGED nonLruVars
    /\ c' = Get(Fresh(c), key).c
    /\ recency' = IF Get(c, key).ok THEN Touch(recency, key, c'.cache)
                  ELSE recency
    /\ last' = Found("Get", key, "")

LruRemoveOldest ==
    /\ ~c.hung
    /\ UNCHANGED nonLruVars
    /\ c' = RemoveOldest(Fresh(c))
    /\ recency' = Keep(recency, c'.cache)
    /\ last' = [op |-> "RemoveOldest", key |-> "", value |-> "",
                ok |-> FALSE, old |-> ""]

NextLRU ==
    \/ \E key \in Keys, value \in Values : LruAdd(key, value)
    \/ \E key \in Keys : LruGet(key)
    \/ LruRemoveOldest

SpecLRU == InitLRU /\ [][NextLRU]_vars

-----------------------------------------------------------------------------
(* Properties of the eviction store.                                       *)

\* the keys of a list, front first
KeysOf(ll) == [i \in 1..Len(ll) |-> ll[i].key]

RECURSIVE SumBytes(_)
SumBytes(ll) == IF ll = <<>> THEN 0 ELSE EntryBytes(Head(ll)) + SumBytes(Tail(ll))

Reverse(seq) == [i \in 1..Len(seq) |-> seq[Len(seq) + 1 - i]]

IsSuffix(t, seq) ==
    /\ Len(t) <= Len(seq)
    /\ SubSeq(seq, Len(seq) - Len(t) + 1, Len(seq)) = t

\* C1: a store created with a capacity above zero never tracks more bytes than
\* its capacity once an operation has returned.
CapacityBound == c.maxBytes > 0 => c.nbytes <= c.maxBytes

\* C1 witness: an Add on a bounded store that had to evict two entries.
CapacityBoundWitness ==
    /\ last.op = "Add"
    /\ c.maxBytes > 0
    /\ Len(c.evicted) = 2
    /\ c.cache # {}

\* C2: the tracked size is the sum of len(key) + value.Len() over the entries
\* the store holds, whatever was updated in place or evicted.
SizeAccounting == c.nbytes = SumBytes(c.ll)

\* C2 witness: an Add that replaced a resident key's value by a longer one and
\* evicted another entry to make room, the key staying resident.
SizeAccountingWitness ==
    /\ last.op = "Add"
    /\ last.ok
    /\ Len(last.value) > Len(last.old)
    /\ c.evicted # <<>>
    /\ last.key \in c.cache

\* C3: the list and the map hold the same keys, each once, and Len() counts
\* the keys of the map.
ListMatchesMap ==
    /\ {c.ll[i].key : i \in 1..Len(c.ll)} = c.cache
    /\ \A i, j \in 1..Len(c.ll) : c.ll[i].key = c.ll[j].key => i = j
    /\ CacheLen(c) = Cardinality(c.cache)

\* C3 witness: a RemoveOldest that took one entry of several away.
ListMatchesMapWitness ==
    /\ last.op = "RemoveOldest"
    /\ Len(c.evicted) = 1
    /\ Cardinality(c.cache) >= 2

\* the access history right after the step's access and before its evictions
Accessed == last'.op = "Add" \/ (last'.op = "Get" /\ last'.ok)

HistAfterAccess ==
    IF Accessed
    THEN Append(Keep(recency, c.cache \ {last'.key}), last'.key)
    ELSE recency

\* C4: every Get hit and every Add leaves the key's entry at the front (while
\* it stays resident), the list is ordered by last access, most recent first,
\* and the keys a step evicts are the ones whose last access is the oldest.
LRUStep ==
    /\ Accessed /\ last'.key \in c'.cache => c'.ll[1].key = last'.key
    /\ KeysOf(c'.ll) = Reverse(recency')
    /\ IsSuffix(recency', HistAfterAccess)
    /\ last'.op = "Get" => c'.cache = c.cache

LRUOrder == [][LRUStep]_vars

\* C4 witness: with b accessed last before c and c before a (a, b, c added,
\* then Get(a)), the Add of dd evicted exactly b and kept a and c.
LRUOrderWitness ==
    /\ last.op = "Add" /\ last.key = "dd" /\ ~last.ok
    /\ c.evicted = << <<"b", "x">> >>
    /\ recency = <<"c", "a", "dd">>
    /\ KeysOf(c.ll) = <<"dd", "a", "c">>

-----------------------------------------------------------------------------
(* Properties of the cache group.                                          *)

HasEvent(t, name) == \E i \in 1..Len(t) : t[i][1] = name

Count(t, names) == Cardinality({i \in 1..Len(t) : t[i][1] \in names})

Payload(t, name) == t[CHOOSE i \in 1..Len(t) : t[i][1] = name][2]

\* a request's own step: its trail grew
OwnStep(p) == req'[p].trail # req[p].trail /\ req'[p].trail # <<>>

\* the entry fits the store: no bound, or a bound the entry does not exceed
Fits(s, key, value) == s.maxBytes = 0 \/ Len(key) + Len(value) <= s.maxBytes

Resident(s, key, value) == key \in s.cache /\ ValueOf(s.ll, key) = value

\* the loader's invocations over all callers
LoaderCalls ==
    Cardinality({pi \in UNION {{<<p, i>> : i \in 1..Len(req[p].trail)} : p \in Procs} :
                    req[pi[1]].trail[pi[2]][1] \in {"load-ok", "load-err"}})

AllReturned == \A p \in Procs : req[p].pc = "ret"

\* the loader answered every invocation with the same bytes
LoaderSteady ==
    \A p \in Procs : \A i \in 1..Len(req[p].trail) :
        /\ req[p].trail[i][1] # "load-err"
        /\ req[p].trail[i][1] = "load-ok" => req[p].trail[i][2] = "v"

\* C5: when all the concurrent Gets of the same missing key have returned
\* (the loader answering "v" whenever asked), the loader was invoked exactly
\* once and every caller holds the same value.
DedupExactlyOnce ==
    AllReturned /\ LoaderSteady =>
        /\ LoaderCalls = 1
        /\ \A p, q \in Procs : req[p].val = req[q].val /\ req[p].err = req[q].err

\* a Get resolved by the peer's answer: its own steps, and what it returns
RemoteOwnSteps ==
    \A p \in Procs :
        LET t == req'[p].trail
        IN  HasEvent(t, "fetch-ok") =>
                /\ OwnStep(p) => mainCache' = mainCache
                /\ Count(t, {"load-ok", "load-err", "populate"}) = 0
                /\ Count(t, {"fetch-ok", "fetch-err"}) = 1
                /\ req'[p].pc = "ret" =>
                       /\ req'[p].val = Payload(t, "fetch-ok")
                       /\ req'[p].err = ""

\* the Get that follows, with nothing in between, a Get resolved by the peer
\* for a key the store did not hold: it misses the store and goes on to the
\* deduplicator, where the picker is asked again
FollowUpMisses ==
    recent'.stage = "again" /\ recent'.how = "remote" /\ recent'.absent =>
        /\ req'[recent'.by].pc = "do"
        /\ req'[recent'.by].trail = << <<"miss", "">> >>

\* the store holds only what the loader returned, never a peer's bytes
OnlyLoadedValues ==
    \A i \in 1..Len(mainCache'.ll) : mainCache'.ll[i].value \in LoaderVals \ PeerVals

\* C6: a Get resolved by a successful fetch from the nominated peer leaves the
\* store as it is at each of its steps (an absent key stays absent), never asks
\* the loader and returns the peer's bytes without error; no peer's bytes are
\* ever in the store, and the Get of the same key that follows misses the store.
RemoteStep == RemoteOwnSteps /\ OnlyLoadedValues /\ FollowUpMisses

FallbackStep ==
    \A p \in Procs :
        LET t == req'[p].trail
            r == req'[p]
        IN  HasEvent(t, "fetch-err") =>
                /\ Count(t, {"fetch-ok", "fetch-err"}) = 1
                /\ Count(t, {"load-ok", "load-err"}) = IF r.pc = "load" THEN 0 ELSE 1
                /\ r.pc = "ret" /\ HasEvent(t, "load-ok") =>
                       /\ r.val = Payload(t, "load-ok")
                       /\ r.err = ""
                       /\ HasEvent(t, "populate")
                /\ t[Len(t)][1] = "populate" /\ OwnStep(p) =>
                       /\ HasEvent(t, "load-ok")
                       /\ IF Fits(mainCache, r.key, Payload(t, "load-ok"))
                          THEN /\ Resident(mainCache', r.key, Payload(t, "load-ok"))
                               /\ mainCache'.ll[1].key = r.key
                          ELSE r.key \notin mainCache'.cache

FallbackOnRemoteFailure == [][FallbackStep]_vars

\* C7 witness: a Get whose peer failed returned the loader's value, now resident.
FallbackWitness ==
    \E p \in Procs :
        /\ req[p].pc = "ret"
        /\ req[p].trail = << <<"miss", "">>, <<"register", "">>, <<"pick", "peer">>,
                             <<"fetch-err", "server returned: 500">>,
                             <<"load-ok", "v">>, <<"populate", "v">>, <<"delete", "">> >>
        /\ req[p].val = "v" /\ req[p].err = ""
        /\ Resident(mainCache, req[p].key, "v")

\* the second Get of the key has read the store right after the load's Get
SecondGetHits ==
    LET q == recent.by
    IN  /\ req[q].pc = "ret"
        /\ req[q].err = ""
        /\ req[q].val = recent.val
        /\ req[q].trail = << <<"hit", recent.val>> >>

\* C8 as stated: whatever the capacity, the Get that follows a Get resolved by
\* a local load, with nothing in between, is served from the store.
PopulateThenHitAnyCapacity ==
    recent.stage = "again" /\ recent.how = "local" => SecondGetHits

\* C8 amended: when the entry fits the capacity (no bound, or len(key) +
\* len(value) within it), the Get that follows a Get resolved by a local load,
\* with nothing in between, is served from the store without the loader.
PopulateThenHit ==
    recent.stage = "again" /\ recent.how = "local"
        /\ Fits(mainCache, recent.key, recent.val) => SecondGetHits

\* C8 witness: on a bounded store the second Get was a hit.
PopulateThenHitWitness ==
    /\ recent.stage = "again"
    /\ recent.how = "local"
    /\ mainCache.maxBytes > 0
    /\ Fits(mainCache, recent.key, recent.val)
    /\ SecondGetHits

\* C9: a Get whose loader failed returns the loader's error and no value,
\* leaves the store as it is at each of its steps, and has no call left in the
\* deduplicator's table once it returns: every call in the table belongs to a
\* Get still inside Do, so a later Get runs the loader again.
LoaderFailureStep ==
    /\ \A p \in Procs :
           LET t == req'[p].trail
           IN  HasEvent(t, "load-err") =>
                   /\ OwnStep(p) => mainCache' = mainCache
                   /\ ~HasEvent(t, "populate")
                   /\ Count(t, {"load-ok", "load-err"}) = 1
                   /\ req'[p].pc = "ret" =>
                          /\ req'[p].err = Payload(t, "load-err")
                          /\ req'[p].val = ""
    /\ \A k \in DOMAIN m' :
           /\ req'[m'[k].owner].key = k
           /\ req'[m'[k].owner].pc \in
                  IF m'[k].done THEN {"delete"} ELSE {"pick", "fetch", "load", "populate"}

LoaderFailure == [][LoaderFailureStep]_vars

\* C9 witness: after a failed fetch and a failed load the Get returned the
\* loader's error; the key is not in the store and no call is left for it.
LoaderFailureWitness ==
    \E p \in Procs :
        /\ req[p].pc = "ret"
        /\ HasEvent(req[p].trail, "fetch-err")
        /\ HasEvent(req[p].trail, "load-err")
        /\ req[p].err = "not found"
        /\ req[p].key \notin mainCache.cache
        /\ req[p].key \notin DOMAIN m
        /\ mainCache.cache # {}

\* C10: Get("") returns the validation error at once; store, table of calls,
\* picker and every other caller stay as they are, and nothing is looked up.
EmptyKeyStep ==
    \A p \in Procs :
        req[p].pc = "idle" /\ req'[p].pc # "idle" /\ req'[p].key = "" =>
            /\ req'[p] = [pc |-> "ret", key |-> "", val |-> "", err |-> "key is required",
                          trail |-> << <<"invalid", "">> >>]
            /\ mainCache' = mainCache
            /\ m' = m
            /\ peers' = peers
            /\ \A q \in Procs \ {p} : req'[q] = req[q]

EmptyKeyRejected == [][EmptyKeyStep]_vars

\* C10 witness: Get("") has returned its error while the store holds an entry
\* and another caller's load is in flight.
EmptyKeyWitness ==
    \E p \in Procs :
        /\ req[p].pc = "ret"
        /\ req[p].err = "key is required"
        /\ mainCache.cache # {}
        /\ DOMAIN m # {}

\* C11: a Get that reads the store while it holds the key returns the stored
\* value with no error in that one step, its trail showing the hit and neither
\* deduplicator, picker, peer nor loader; table of calls, picker and the other
\* callers stay as they are, and the store changes only by the entry's move to
\* the front of the list.
LocalHitStep ==
    \A p \in Procs :
        req[p].pc = "get" /\ req'[p] # req[p] /\ req[p].key \in mainCache.cache =>
            LET key == req[p].key
                i == IndexOf(mainCache.ll, key)
            IN  /\ req'[p] = [pc |-> "ret", key |-> key, val |-> mainCache.ll[i].value,
                              err |-> "", trail |-> << <<"hit", mainCache.ll[i].value>> >>]
                /\ m' = m
                /\ peers' = peers
                /\ fault' = fault
                /\ \A q \in Procs \ {p} : req'[q] = req[q]
                /\ mainCache'.ll[1] = mainCache.ll[i]
                /\ RemoveAt(mainCache'.ll, 1) = RemoveAt(mainCache.ll, i)
                /\ mainCache'.cache = mainCache.cache
                /\ mainCache'.nbytes = mainCache.nbytes
                /\ mainCache'.maxBytes = mainCache.maxBytes
                /\ mainCache'.evicted = <<>>

LocalHit == [][LocalHitStep]_vars

\* C11 witness: a Get was served from the store, its key now at the front of
\* two entries, while a picker is bound and another caller's load is in flight.
LocalHitWitness ==
    \E p \in Procs :
        /\ req[p].pc = "ret"
        /\ req[p].trail = << <<"hit", "v">> >>
        /\ req[p].val = "v" /\ req[p].err = ""
        /\ Len(mainCache.ll) = 2
        /\ mainCache.ll[1].key = req[p].key
        /\ peers # "nil"
        /\ DOMAIN m # {}

\* C12: whatever the interleaving of the RegisterPeers calls with each other
\* and with Get, one call at most binds its picker: of two calls, the second
\* one panics and the picker bound by the first stays.
SingleRegistration ==
    \A r, q \in Registrars : reg[r] = "bound" /\ reg[q] = "bound" => r = q

-----------------------------------------------------------------------------
(* Properties of the peer server.                                          *)

\* every segment of a path
Segments(chars) == SplitN(chars, "/", Len(chars) + 1)

\* C13: a request whose path is not exactly a group name and a key (no or one
\* segment, more than two, or an empty key) is answered with the bad-request
\* status, and the group's Get is not called for it.
BadRequestOnMalformed ==
    Len(Segments(http.path)) # 2 \/ Segments(http.path)[2] = <<>> =>
        /\ ~http.called
        /\ http.pc = "done" => http.status = StatusBadRequest

\* C14: a request with a group name and a key, naming a group the registry
\* does not hold, is answered at once with the not-found status and the body
\* "no such group: <name>"; store, table of calls and callers stay as they are.
UnknownGroupStep ==
    LET segs == Segments(http'.path)
    IN  /\ http' # http
        /\ http'.pc = "done"
        /\ Len(segs) = 2 /\ segs[1] # <<>> /\ segs[2] # <<>>
        /\ GetGroup(groups, Join(segs[1])) = 0
        => /\ http'.status = StatusNotFound
           /\ http'.body = "no such group: " \o Join(segs[1])
           /\ ~http'.called
           /\ mainCache' = mainCache
           /\ m' = m
           /\ req' = req

UnknownGroup == [][UnknownGroupStep]_vars

-----------------------------------------------------------------------------
(* Further properties of the eviction store.                               *)

\* C15: whatever the capacity, key and value, Add returns: its loop stops once
\* the size is within the capacity or the store is empty, and an entry larger
\* than the whole capacity leaves the store empty with size 0.
AddTerminates ==
    last.op = "Add" =>
        /\ ~c.hung
        /\ c.maxBytes # 0 /\ c.maxBytes < Len(last.key) + Len(last.value) =>
               c.ll = <<>> /\ c.cache = {} /\ c.nbytes = 0

\* the value of key when an operation's evictions begin: the value the
\* operation has put, or else the value the store held
ValueAtEviction(key) ==
    IF last'.op = "Add" /\ key = last'.key THEN last'.value ELSE ValueOf(c.ll, key)

\* the keys an operation evicted
Evicted == (c.cache \cup (IF last'.op = "Add" THEN {last'.key} ELSE {})) \ c'.cache

\* the callback ran once for each evicted entry, with its key and the value it
\* held last, and for nothing else: never for a value replaced in place, never
\* for a Get, never when no callback is configured
CallbackPerEviction ==
    /\ Len(c'.evicted) = IF c.OnEvicted THEN Cardinality(Evicted) ELSE 0
    /\ c.OnEvicted =>
           \A key \in Evicted :
               Cardinality({i \in 1..Len(c'.evicted) : c'.evicted[i][1] = key}) = 1
    /\ \A i \in 1..Len(c'.evicted) :
           /\ c'.evicted[i][1] \in Evicted
           /\ c'.evicted[i][2] = ValueAtEviction(c'.evicted[i][1])
    /\ Len(c'.seen) = Len(c'.evicted)

\* at each invocation list, map and size still hold the entry
CallbackBeforeRemoval ==
    \A i \in 1..Len(c'.evicted) :
        /\ c'.evicted[i][1] \in c'.seen[i].cache
        /\ \E j \in 1..Len(c'.seen[i].ll) : c'.seen[i].ll[j].key = c'.evicted[i][1]
        /\ c'.seen[i].nbytes = SumBytes(c'.seen[i].ll)

\* at each invocation list, map and size have let go of the entry
CallbackAfterRemoval ==
    \A i \in 1..Len(c'.evicted) :
        /\ c'.evicted[i][1] \notin c'.seen[i].cache
        /\ \A j \in 1..Len(c'.seen[i].ll) : c'.seen[i].ll[j].key # c'.evicted[i][1]
        /\ c'.seen[i].nbytes = SumBytes(c'.seen[i].ll)

\* C16 as stated: a configured callback is invoked once for every evicted
\* entry, with its key and latest value, before list, map and size let go of
\* the entry, and never for an in-place update or a Get.
EvictionCallbackFirst == [][CallbackPerEviction /\ CallbackBeforeRemoval]_vars

\* C16 amended: a configured callback is invoked once for every evicted entry,
\* with its key and latest value, after list, map and size have let go of the
\* entry, and never for an in-place update or a Get.
EvictionCallback == [][CallbackPerEviction /\ CallbackAfterRemoval]_vars

\* C16 witness: an Add replaced a resident key's value in place and then
\* evicted that very entry; the callback got the new value.
EvictionCallbackWitness ==
    /\ last.op = "Add"
    /\ last.ok
    /\ last.old # last.value
    /\ c.OnEvicted
    /\ \E i \in 1..Len(c.evicted) : c.evicted[i] = <<last.key, last.value>>
    /\ Len(c.evicted) = 2

\* the entries of a list, whatever their order
Entries(ll) == {ll[i] : i \in 1..Len(ll)}

\* C17: a Get of a key the store does not hold answers not-found and leaves
\* list, map and size as they are; a Get of a resident key answers the value
\* the entry holds and changes the order of the list at most: the same
\* entries with the same values and size, and no callback.
GetFrameStep ==
    last'.op = "Get" =>
        /\ c'.cache = c.cache
        /\ c'.nbytes = c.nbytes
        /\ c'.maxBytes = c.maxBytes
        /\ Len(c'.ll) = Len(c.ll)
        /\ Entries(c'.ll) = Entries(c.ll)
        /\ c'.evicted = <<>>
        /\ IF last'.key \in c.cache
           THEN /\ last'.ok
                /\ [key |-> last'.key, value |-> last'.old] \in Entries(c.ll)
           ELSE /\ ~last'.ok
                /\ c'.ll = c.ll
                /\ recency' = recency

GetFrame == [][GetFrameStep]_vars

\* C17 witness: a Get found its key among three entries of a bounded store
\* with a callback, and the key is now at the front.
GetFrameWitness ==
    /\ last.op = "Get"
    /\ last.ok
    /\ Len(c.ll) = 3
    /\ c.ll[1] = [key |-> last.key, value |-> last.old]
    /\ c.OnEvicted
    /\ c.maxBytes > 0

-----------------------------------------------------------------------------
(* Properties of the picker.                                               *)

\* C18: after a Set, PickPeer hands out a client only for a key whose owner on
\* the ring is a peer of the last Set and is not this node: the client is not
\* nil and its base URL is the owner's address followed by the base path;
\* otherwise it answers (nil, false).  Ring and table of clients hold the
\* peers of the last Set and no others.
PickerOfLastSet ==
    pool.isSet =>
        /\ DOMAIN pool.httpGetters = Range(poolHist.set)
        /\ \A key \in PoolKeys :
               IF poolHist.set = <<>>
               THEN RingGet(pool.peers, key) = ""
               ELSE RingGet(pool.peers, key) \in Range(poolHist.set)
        /\ poolHist.op = "PickPeer" =>
               LET owner == RingGet(pool.peers, poolHist.key)
               IN  IF owner \in Range(poolHist.set) /\ owner # pool.self
                   THEN /\ poolHist.ok
                        /\ ~poolHist.getter.isNil
                        /\ poolHist.getter.baseURL = owner \o "/_geecache/"
                   ELSE /\ ~poolHist.ok
                        /\ poolHist.getter = NilGetter

\* C18 witness: after a Set of two peers, this node among them, that followed
\* a Set of another peer, PickPeer handed out the client of the other node.
PickerWitness ==
    /\ poolHist.op = "PickPeer"
    /\ pool.self = "http://a"
    /\ poolHist.before = <<"http://c">>
    /\ poolHist.set = <<"http://a", "http://b">>
    /\ poolHist.ok
    /\ poolHist.getter = [isNil |-> FALSE, baseURL |-> "http://b/_geecache/"]

-----------------------------------------------------------------------------
(* Properties of the registry.                                             *)

\* C20: a name is bound once, when its group is made, and the binding stays:
\* GetGroup answers nil for a name no group was made with and otherwise the
\* group the first NewGroup of that name returned; a NewGroup with a nil
\* getter panics and leaves the registry as it is.
RegistryStep ==
    /\ \A name \in DOMAIN groups :
           name \in DOMAIN groups' /\ groups'[name] = groups[name]
    /\ \A name \in Names :
           GetGroup(groups', name) =
               IF name \in DOMAIN regHist'.first THEN regHist'.first[name] ELSE 0
    /\ regHist'.last.op = "GetGroup" =>
           regHist'.last.result =
               IF regHist'.last.name \in DOMAIN regHist'.first
               THEN regHist'.first[regHist'.last.name]
               ELSE 0
    /\ fault' # fault => groups' = groups

RegistryBindsOnce == [][RegistryStep]_vars

-----------------------------------------------------------------------------
(* Properties of the cluster.                                              *)

\* C19, what no run may do: a request is sent on to one other node at most,
\* and the node that serves it resolves it from its store or by its loader
\* without sending it on.
OneHop ==
    \A s \in Slots :
        /\ calls[s].hops <= 1
        /\ s[2] # "client" => calls[s].pc \notin {"fetch", "await"}

\* C19, what every run does: every Get of a local caller returns.
EveryGetReturns ==
    \A n \in Nodes :
        calls[<<n, "client">>].pc = "get" ~> calls[<<n, "client">>].pc = "ret"

\* the handler of a request sent by a handler never sends it on
DepthBounded == \A n \in Nodes : calls[<<n, "h2">>].pc # "fetch"

====
